---- MODULE Spec2Model ----
(***************************************************************************)
(* Model of the matchmaking application: the team balancer of the teams    *)
(* page (rating-sorted snake draft, src/app/teams/page.tsx) and of the     *)
(* team randomizer page (category-stratified, src/app/matches/record/      *)
(* page.tsx), and the recording of match results against the document      *)
(* store (src/unnamed/part_001, src/unnamed/part_004, src/unnamed/part_007).*)
(***************************************************************************)
EXTENDS Integers, Sequences, FiniteSets, TLC

VARIABLES
    \* ---- page state (React state of TeamsPage / TeamRandomizer) ----
    page,           \* which page version runs: "mmr" or "category"
    players,        \* players[i]: the i-th loaded player record
    selectedCount,  \* the page's counter of selected players
    teams,          \* NoTeams (null) or <<[team1, team2]>>, teams as sequences of ids
    error,          \* Null or the error message shown
    \* ---- locals of a running randomizeTeams ----
    pc,             \* "idle", "trial" (inside the refinement loop), "done"
    team1, team2,           \* the seeded (post-reconciliation) teams; on the
                            \* custom-team page, the two teams of the page
    bestTeam1, bestTeam2,   \* best arrangement so far
    bestScore,              \* its score
    attempt,                \* loop counter
    team1Temp, team2Temp,   \* the copies of the last trial, after its swap
    \* ---- document store and recordMatchResult calls ----
    playerDocs,         \* players collection: id -> document or Deleted
    teamCompositions,   \* teamCompositions collection: sequence, id = index
    matchResults,       \* matchResults collection: sequence of records
    calls,              \* the recordMatchResult invocations
    \* ---- a player's card: rating, tier and rating reliability ----
    playerA, playerB,   \* the two players of a one-against-one match, or NoPlayer
    enteredTier,        \* the tier playerA was added with, or Null
    rd,                 \* the deviations of the rows of the players list
    reliability,        \* <<>> or calculateRatingReliability of each row
    matchesNeeded,      \* <<>> or getMatchesForReliableRating of each row
    editedTier,         \* the tier chosen in the last edit of playerA, or Null
    \* ---- togglePlayerSelection calls in flight ----
    toggleCalls,        \* the invocations of togglePlayerSelection
    storedSelected      \* the ids whose stored document has isSelected = true

pageVars == <<page, players, selectedCount, teams, error>>
runVars == <<pc, team1, team2, bestTeam1, bestTeam2, bestScore, attempt,
             team1Temp, team2Temp>>
storeVars == <<playerDocs, teamCompositions, matchResults, calls>>
cardVars == <<playerA, playerB, enteredTier, rd, reliability, matchesNeeded, editedTier>>
toggleVars == <<toggleCalls, storedSelected>>
vars == <<pageVars, runVars, storeVars, cardVars, toggleVars>>

Null == "null"

\* the null of the teams state; a stored value t is held as <<t>>
NoTeams == <<>>

\* ---------------------------------------------------------------------
\* Bounds of the model
\* ---------------------------------------------------------------------
MaxPlayers == 3     \* players loaded by a page
MaxAttempts == 3    \* refinement trials explored per run

\* ---------------------------------------------------------------------
\* Generic helpers
\* ---------------------------------------------------------------------
Range(s) == {s[i] : i \in DOMAIN s}

Min(a, b) == IF a < b THEN a ELSE b

Abs(x) == IF x < 0 THEN -x ELSE x

\* the elements of s at the positions in P, in the order of s
RECURSIVE SubSeqAt(_, _)
SubSeqAt(s, P) ==
    IF s = <<>> THEN <<>>
    ELSE LET rest == SubSeqAt(SubSeq(s, 1, Len(s) - 1), P)
         IN IF Len(s) \in P THEN Append(rest, s[Len(s)]) ELSE rest

\* Array.prototype.pop: the array without its last element
Pop(s) == SubSeq(s, 1, Len(s) - 1)

Last(s) == s[Len(s)]

\* all orders of the elements of a sequence of distinct elements
Perms(s) ==
    {q \in [1..Len(s) -> Range(s)] : \A i, j \in 1..Len(s) : i # j => q[i] # q[j]}

\* sum of f[x] over a finite set
RECURSIVE SumOver(_, _)
SumOver(S, f) ==
    IF S = {} THEN 0
    ELSE LET x == CHOOSE y \in S : TRUE IN f[x] + SumOver(S \ {x}, f)

\* Math.round(n / d) for n >= 0, d > 0: halves round up
RoundDiv(n, d) == (2 * n + d) \div (2 * d)

\* ---------------------------------------------------------------------
\* Player attributes
\* ---------------------------------------------------------------------
Ids == 1..MaxPlayers
Roles == {"Roam", "Mid", "Gold", "Jungle", "Exp"}
Categories == {"Expert", "Intermediate", "Beginner"}

\* the attribute combinations the model draws a loaded player from
MmrProfiles ==
    { [mmr |-> 1000, category |-> "Expert", roles |-> {"Roam"}],
      [mmr |-> 1000, category |-> "Expert", roles |-> {"Mid"}],
      [mmr |-> 1005, category |-> "Expert", roles |-> {"Roam", "Mid"}] }
CategoryProfiles ==
    { [mmr |-> 1000, category |-> "Expert", roles |-> {"Roam"}],
      [mmr |-> 1000, category |-> "Expert", roles |-> {"Mid"}],
      [mmr |-> 1000, category |-> "Intermediate", roles |-> {"Roam", "Mid"}],
      [mmr |-> 1000, category |-> "Beginner", roles |-> {"Mid"}] }

Loaded(prof, sel) ==
    [mmr |-> prof.mmr, category |-> prof.category, roles |-> prof.roles,
     isSelected |-> sel]

\* ---------------------------------------------------------------------
\* Scoring
\* ---------------------------------------------------------------------
\* player.stats?.mmr || player.mmr of a loaded player
EffectiveMmr(id) == players[id].mmr

calculateTeamAverageMmr(team) ==
    IF Len(team) = 0 THEN 0
    ELSE RoundDiv(SumOver(DOMAIN team, [i \in DOMAIN team |-> EffectiveMmr(team[i])]),
                  Len(team))

calculateTeamRoleScore(team) ==
    LET rolesCovered == UNION {players[team[i]].roles : i \in DOMAIN team}
        roleCounts == [r \in Roles |->
                         Cardinality({i \in DOMAIN team : r \in players[team[i]].roles})]
    IN Cardinality(rolesCovered) * 10
       - SumOver(Roles, [r \in Roles |->
                           IF roleCounts[r] > 1 THEN (roleCounts[r] - 1) * 2 ELSE 0])

\* the objective of the page: role score, minus twice the rating gap on the
\* rating-aware page
Score(t1, t2) ==
    IF page = "mmr"
    THEN calculateTeamRoleScore(t1) + calculateTeamRoleScore(t2)
         - Abs(calculateTeamAverageMmr(t1) - calculateTeamAverageMmr(t2)) * 2
    ELSE calculateTeamRoleScore(t1) + calculateTeamRoleScore(t2)

\* ---------------------------------------------------------------------
\* Seeding: teams page (rating-sorted snake draft)
\* ---------------------------------------------------------------------
\* players.filter((p) => p.isSelected), as ids in list order
SelectedPlayers ==
    SelectSeq([i \in DOMAIN players |-> i], LAMBDA id : players[id].isSelected)

\* Array.prototype.sort with (a, b) => bMmr - aMmr: stable, descending
RECURSIVE SortByMmrDesc(_)
SortByMmrDesc(s) ==
    IF s = <<>> THEN <<>>
    ELSE LET sorted == SortByMmrDesc(Pop(s))
             x == Last(s)
             \* x goes behind every element that is not smaller than it
             k == Cardinality({i \in DOMAIN sorted :
                                 EffectiveMmr(sorted[i]) >= EffectiveMmr(x)})
         IN SubSeq(sorted, 1, k) \o <<x>> \o SubSeq(sorted, k + 1, Len(sorted))

SnakeTeam1PositionsFirstTwo(n) == {i \in 1..n : (i - 1) % 4 = 0 \/ (i - 1) % 4 = 1}

\* index % 4 === 0 || index % 4 === 3 goes to team1 (index counted from 0)
SnakeTeam1Positions(n) == {i \in 1..n : (i - 1) % 4 = 0 \/ (i - 1) % 4 = 3}

\* a plain alternation: even positions to team1, odd positions to team2
SnakeDraftAlternating(sorted) ==
    [team1 |-> SubSeqAt(sorted, {i \in 1..Len(sorted) : (i - 1) % 2 = 0}),
     team2 |-> SubSeqAt(sorted, {i \in 1..Len(sorted) : (i - 1) % 2 # 0})]

SnakeDraft(sorted) ==
    [team1 |-> SubSeqAt(sorted, SnakeTeam1Positions(Len(sorted))),
     team2 |-> SubSeqAt(sorted, (1..Len(sorted)) \ SnakeTeam1Positions(Len(sorted)))]

\* "Balance team sizes if needed" of the teams page: only for an odd pool
ReconcileOdd(n, t) ==
    IF n % 2 # 0
    THEN IF Len(t.team1) > Len(t.team2) + 1
         THEN [team1 |-> Pop(t.team1), team2 |-> Append(t.team2, Last(t.team1))]
         ELSE IF Len(t.team2) > Len(t.team1) + 1
              THEN [team1 |-> Append(t.team1, Last(t.team2)), team2 |-> Pop(t.team2)]
              ELSE t
    ELSE t

SnakeSeed(selected) == ReconcileOdd(Len(selected), SnakeDraft(SortByMmrDesc(selected)))

\* ---------------------------------------------------------------------
\* Seeding: randomizer page (category-stratified)
\* ---------------------------------------------------------------------
OfCategory(s, c) == SelectSeq(s, LAMBDA id : players[id].category = c)

\* index % 2 === 0 goes to team1 (index counted from 0)
Alternate(t, shuffled) ==
    [team1 |-> t.team1 \o SubSeqAt(shuffled, {i \in 1..Len(shuffled) : (i - 1) % 2 = 0}),
     team2 |-> t.team2 \o SubSeqAt(shuffled, {i \in 1..Len(shuffled) : (i - 1) % 2 # 0})]

\* "Balance team sizes if needed" of the randomizer page: only for an even pool
ReconcileEven(n, t) ==
    IF n % 2 = 0 /\ Len(t.team1) # Len(t.team2)
    THEN IF Len(t.team1) > Len(t.team2)
         THEN [team1 |-> Pop(t.team1), team2 |-> Append(t.team2, Last(t.team1))]
         ELSE [team1 |-> Append(t.team1, Last(t.team2)), team2 |-> Pop(t.team2)]
    ELSE t

CategorySeed(selected, shuffledExperts, shuffledIntermediates, shuffledBeginners) ==
    ReconcileEven(Len(selected),
        Alternate(Alternate(Alternate([team1 |-> <<>>, team2 |-> <<>>],
                                      shuffledExperts),
                            shuffledIntermediates),
                  shuffledBeginners))

\* ---------------------------------------------------------------------
\* randomizeTeams: guard, seeding, refinement loop, setTeams
\* ---------------------------------------------------------------------
TooFewMessage == "Please select at least 2 players to randomize teams"
ToggleFailedMessage == "Failed to update player selection. Please try again."

ATTEMPTS_MMR == 200
ATTEMPTS_CATEGORY == 100

\* number of trials of the loop that the model explores
TrialLimit == Min(IF page = "mmr" THEN ATTEMPTS_MMR ELSE ATTEMPTS_CATEGORY, MaxAttempts)

TooFewSelectedOffByOne(selected) == Len(selected) < 1

\* selectedPlayers.length < 2
TooFewSelected(selected) == Len(selected) < 2

\* fewer than 2 of the loaded players are selected
TooFewSelectedInPool == Cardinality({id \in DOMAIN players : players[id].isSelected}) < 2

\* a swap without the temporary: the second assignment reads the new value
SwapAtOverwriting(t1, t2, i, j) ==
    [team1 |-> [t1 EXCEPT ![i] = t2[j]], team2 |-> t2]

\* [team1Temp[i], team2Temp[j]] = [team2Temp[j], team1Temp[i]]
SwapAt(t1, t2, i, j) ==
    [team1 |-> [t1 EXCEPT ![i] = t2[j]], team2 |-> [t2 EXCEPT ![j] = t1[i]]]

BetterOrEqual(score, best) == score >= best

\* if (score > bestScore)
Better(score, best) == score > best

NoRun ==
    /\ pc = "idle"
    /\ team1 = <<>> /\ team2 = <<>>
    /\ bestTeam1 = <<>> /\ bestTeam2 = <<>>
    /\ bestScore = 0 /\ attempt = 0
    /\ team1Temp = <<>> /\ team2Temp = <<>>

\* the handler returns: its locals are gone
ReturnFromRun ==
    /\ pc' = "idle"
    /\ team1' = <<>> /\ team2' = <<>>
    /\ bestTeam1' = <<>> /\ bestTeam2' = <<>>
    /\ bestScore' = 0 /\ attempt' = 0
    /\ team1Temp' = <<>> /\ team2Temp' = <<>>

\* the locals right before the loop, for the seeded teams
EnterLoop(seed) ==
    /\ team1' = seed.team1
    /\ team2' = seed.team2
    /\ bestTeam1' = seed.team1
    /\ bestTeam2' = seed.team2
    /\ bestScore' = Score(seed.team1, seed.team2)
    /\ attempt' = 0
    /\ team1Temp' = <<>>
    /\ team2Temp' = <<>>
    /\ pc' = "trial"

\* teams page: the handler up to the first trial
randomizeTeams ==
    /\ page = "mmr"
    /\ pc = "idle"
    /\ \/ /\ TooFewSelected(SelectedPlayers)
          /\ error' = TooFewMessage
          /\ UNCHANGED <<page, players, selectedCount, teams, runVars>>
       \/ /\ ~TooFewSelected(SelectedPlayers)
          /\ error' = Null
          /\ EnterLoop(SnakeSeed(SelectedPlayers))
          /\ UNCHANGED <<page, players, selectedCount, teams>>
    /\ UNCHANGED <<storeVars, cardVars, toggleVars>>

\* randomizer page: the handler up to the first trial
randomizeTeamsByCategory ==
    /\ page = "category"
    /\ pc = "idle"
    /\ \/ /\ TooFewSelected(SelectedPlayers)
          /\ error' = TooFewMessage
          /\ UNCHANGED <<page, players, selectedCount, teams, runVars>>
       \/ /\ ~TooFewSelected(SelectedPlayers)
          /\ \E shuffledExperts \in Perms(OfCategory(SelectedPlayers, "Expert")),
                shuffledIntermediates \in Perms(OfCategory(SelectedPlayers, "Intermediate")),
                shuffledBeginners \in Perms(OfCategory(SelectedPlayers, "Beginner")) :
                EnterLoop(CategorySeed(SelectedPlayers, shuffledExperts,
                                       shuffledIntermediates, shuffledBeginners))
          /\ UNCHANGED <<page, players, selectedCount, teams, error>>
    /\ UNCHANGED <<storeVars, cardVars, toggleVars>>

\* what a trial does with its swapped copies
Evaluate(temp) ==
    LET score == Score(temp.team1, temp.team2) IN
    /\ team1Temp' = temp.team1
    /\ team2Temp' = temp.team2
    /\ IF Better(score, bestScore)
       THEN /\ bestTeam1' = temp.team1
            /\ bestTeam2' = temp.team2
            /\ bestScore' = score
       ELSE UNCHANGED <<bestTeam1, bestTeam2, bestScore>>
    /\ attempt' = attempt + 1
    /\ UNCHANGED <<pc, team1, team2>>

\* a trial that goes on from the best arrangement found so far
TrialStartFromBest == [team1 |-> bestTeam1, team2 |-> bestTeam2]

\* const team1Temp = [...team1]; const team2Temp = [...team2]
TrialStart == [team1 |-> team1, team2 |-> team2]

\* teams page: one iteration of the loop, any cross-team pair
TrialSnake ==
    /\ page = "mmr"
    /\ pc = "trial"
    /\ attempt < TrialLimit
    /\ \E team1Index \in 1..Len(TrialStart.team1),
          team2Index \in 1..Len(TrialStart.team2) :
          Evaluate(SwapAt(TrialStart.team1, TrialStart.team2, team1Index, team2Index))
    /\ UNCHANGED <<pageVars, storeVars, cardVars, toggleVars>>

\* every index, whatever the category
IndicesOfAnyCategory(team, c) == DOMAIN team

IndicesOf(team, c) == {i \in DOMAIN team : players[team[i]].category = c}

\* the category whose members the trial swaps: the first of Expert,
\* Intermediate, Beginner present on both teams, or Null
SwapCategory ==
    LET team1Temp0 == TrialStart.team1
        team2Temp0 == TrialStart.team2
    IN IF IndicesOf(team1Temp0, "Expert") # {} /\ IndicesOf(team2Temp0, "Expert") # {}
       THEN "Expert"
       ELSE IF /\ IndicesOf(team1Temp0, "Intermediate") # {}
               /\ IndicesOf(team2Temp0, "Intermediate") # {}
            THEN "Intermediate"
            ELSE IF /\ IndicesOf(team1Temp0, "Beginner") # {}
                    /\ IndicesOf(team2Temp0, "Beginner") # {}
                 THEN "Beginner"
                 ELSE Null

\* randomizer page: one iteration of the loop, a same-category pair or no swap
TrialCategory ==
    /\ page = "category"
    /\ pc = "trial"
    /\ attempt < TrialLimit
    /\ \/ /\ SwapCategory # Null
          /\ \E index1 \in IndicesOf(TrialStart.team1, SwapCategory),
                index2 \in IndicesOf(TrialStart.team2, SwapCategory) :
                Evaluate(SwapAt(TrialStart.team1, TrialStart.team2, index1, index2))
       \/ /\ SwapCategory = Null
          /\ Evaluate(TrialStart)
    /\ UNCHANGED <<pageVars, storeVars, cardVars, toggleVars>>

\* setTeams({ team1: bestTeam1, team2: bestTeam2 }) and return
Finish ==
    /\ pc = "trial"
    /\ attempt = TrialLimit
    /\ teams' = <<[team1 |-> bestTeam1, team2 |-> bestTeam2]>>
    /\ ReturnFromRun
    /\ UNCHANGED <<page, players, selectedCount, error, storeVars, cardVars, toggleVars>>

\* togglePlayerSelection: the check against selectedCount, the storage write
\* (which may fail) and the update of the page state
togglePlayerSelection(id) ==
    /\ pc = "idle"
    /\ players[id].isSelected \/ (~players[id].isSelected /\ selectedCount < 10)
    /\ \/ /\ players' = [players EXCEPT ![id].isSelected = ~players[id].isSelected]
          /\ selectedCount' = IF players[id].isSelected THEN selectedCount - 1
                              ELSE selectedCount + 1
          /\ UNCHANGED error
       \/ /\ error' = ToggleFailedMessage
          /\ UNCHANGED <<players, selectedCount>>
    /\ UNCHANGED <<page, teams, runVars, storeVars, cardVars, toggleVars>>

\* ---------------------------------------------------------------------
\* Specifications of the pages
\* ---------------------------------------------------------------------
\* no player loaded on the card
NoPlayer == [id |-> 0, mmr |-> 0, roles |-> {}, stats |-> <<>>]

\* no togglePlayerSelection call is modelled
NoToggles ==
    /\ toggleCalls = <<>>
    /\ storedSelected = {}

CardUnused ==
    /\ playerA = NoPlayer /\ playerB = NoPlayer
    /\ enteredTier = Null
    /\ editedTier = Null
    /\ rd = <<>>
    /\ reliability = <<>>
    /\ matchesNeeded = <<>>

StoreUnused ==
    /\ playerDocs = <<>>
    /\ teamCompositions = <<>>
    /\ matchResults = <<>>
    /\ calls = <<>>

\* a page right after loadData: the stored players, none of the teams made
PageLoaded(profiles) ==
    /\ players \in [Ids -> {Loaded(prof, sel) : prof \in profiles, sel \in BOOLEAN}]
    /\ selectedCount = Cardinality({id \in Ids : players[id].isSelected})
    /\ teams = NoTeams
    /\ error = Null
    /\ NoRun
    /\ StoreUnused
    /\ NoToggles
    /\ CardUnused

\* the roles of a pool of 10 players with one role each and every role twice,
\* in list order, the first five players rated 1500 and the others 1000: a
\* pool whose snake draft covers all roles on both teams, one that is a single
\* swap away from it, and two that are further away
ScenarioRoleOrders ==
    { <<"Roam", "Roam", "Mid", "Mid", "Gold", "Gold", "Jungle", "Jungle", "Exp", "Exp">>,
      <<"Roam", "Mid", "Gold", "Jungle", "Exp", "Roam", "Mid", "Gold", "Jungle", "Exp">>,
      <<"Roam", "Mid", "Gold", "Jungle", "Exp", "Exp", "Jungle", "Gold", "Mid", "Roam">>,
      <<"Roam", "Gold", "Jungle", "Roam", "Mid", "Jungle", "Exp", "Mid", "Gold", "Exp">> }

ScenarioPool(roleOrder) ==
    [i \in DOMAIN roleOrder |->
        Loaded([mmr |-> IF i <= 5 THEN 1500 ELSE 1000, category |-> "Expert",
                roles |-> {roleOrder[i]}], TRUE)]

\* the teams page with the pool of 10 loaded and selected
ScenarioLoaded ==
    /\ players \in {ScenarioPool(roleOrder) : roleOrder \in ScenarioRoleOrders}
    /\ selectedCount = Len(players)
    /\ teams = NoTeams
    /\ error = Null
    /\ NoRun
    /\ StoreUnused
    /\ NoToggles
    /\ CardUnused

\* the randomizer page with four players loaded and selected, of any categories
FourSelectedLoaded ==
    /\ players \in [1..4 -> {Loaded(prof, TRUE) : prof \in CategoryProfiles}]
    /\ selectedCount = Len(players)
    /\ teams = NoTeams
    /\ error = Null
    /\ NoRun
    /\ StoreUnused
    /\ NoToggles
    /\ CardUnused

Init ==
    \/ page = "mmr" /\ PageLoaded(MmrProfiles)
    \/ page = "category" /\ PageLoaded(CategoryProfiles)
    \/ page = "mmr" /\ ScenarioLoaded
    \/ page = "category" /\ FourSelectedLoaded

Next ==
    \/ randomizeTeams
    \/ randomizeTeamsByCategory
    \/ TrialSnake
    \/ TrialCategory
    \/ Finish

Spec == Init /\ [][Next]_vars

\* a session on a page: selections change between the runs of the balancer
InitPage ==
    \/ page = "mmr" /\ PageLoaded({prof \in MmrProfiles : prof.mmr = 1000})
    \/ page = "category" /\ PageLoaded({prof \in CategoryProfiles : prof.roles = {"Mid"}})

NextPage ==
    \/ randomizeTeams
    \/ randomizeTeamsByCategory
    \/ TrialSnake
    \/ TrialCategory
    \/ Finish
    \/ \E id \in Ids : togglePlayerSelection(id)

SpecPage == InitPage /\ [][NextPage]_vars

\* ---------------------------------------------------------------------
\* togglePlayerSelection as it runs: the check, the awaited storage write and
\* the update of the page state are separate steps, and a second call can
\* start while the first one waits
\* ---------------------------------------------------------------------
MaxToggles == 3     \* togglePlayerSelection invocations

NewToggle == [pc |-> "new", id |-> 0, newIsSelected |-> FALSE, players |-> <<>>]

\* the call is over
ReturnedToggle == [NewToggle EXCEPT !.pc = "returned"]

\* the handler of the render a click lands on, up to the await: player and
\* players are those of that render
togglePlayerSelectionCheck(c, id) ==
    /\ toggleCalls[c].pc = "new"
    /\ IF players[id].isSelected \/ (~players[id].isSelected /\ selectedCount < 10)
       THEN toggleCalls' = [toggleCalls EXCEPT ![c] =
                [pc |-> "updateDoc", id |-> id,
                 newIsSelected |-> ~players[id].isSelected,
                 players |-> players]]
       ELSE toggleCalls' = [toggleCalls EXCEPT ![c] = ReturnedToggle]
    /\ UNCHANGED <<pageVars, runVars, storeVars, cardVars, storedSelected>>

\* await updatePlayerInFirestore(player.id, { isSelected: newIsSelected }),
\* or its failure and the catch block
togglePlayerSelectionWrite(c) ==
    /\ toggleCalls[c].pc = "updateDoc"
    /\ \/ /\ storedSelected' = IF toggleCalls[c].newIsSelected
                               THEN storedSelected \cup {toggleCalls[c].id}
                               ELSE storedSelected \ {toggleCalls[c].id}
          /\ toggleCalls' = [toggleCalls EXCEPT ![c].pc = "setPlayers"]
          /\ UNCHANGED error
       \/ /\ error' = ToggleFailedMessage
          /\ toggleCalls' = [toggleCalls EXCEPT ![c] = ReturnedToggle]
          /\ UNCHANGED storedSelected
    /\ UNCHANGED <<page, players, selectedCount, teams, runVars, storeVars, cardVars>>

\* setPlayers(players.map(...)) with the players of the handler's render, and
\* setSelectedCount((prev) => ...) on the current count
togglePlayerSelectionUpdate(c) ==
    /\ toggleCalls[c].pc = "setPlayers"
    /\ players' = [toggleCalls[c].players EXCEPT
                      ![toggleCalls[c].id].isSelected = toggleCalls[c].newIsSelected]
    /\ selectedCount' = IF toggleCalls[c].newIsSelected THEN selectedCount + 1
                        ELSE selectedCount - 1
    /\ toggleCalls' = [toggleCalls EXCEPT ![c] = ReturnedToggle]
    /\ UNCHANGED <<page, teams, error, runVars, storeVars, cardVars, storedSelected>>

\* the teams page with eleven players loaded, the first nine or ten selected
InitToggle ==
    /\ page = "mmr"
    /\ \E count \in {9, 10} :
          /\ players = [i \in 1..11 |->
                           Loaded([mmr |-> 1000, category |-> "Expert", roles |-> {"Roam"}],
                                  i <= count)]
          /\ selectedCount = count
          /\ storedSelected = 1..count
    /\ toggleCalls = [c \in 1..MaxToggles |-> NewToggle]
    /\ teams = NoTeams
    /\ error = Null
    /\ NoRun
    /\ StoreUnused
    /\ CardUnused

NextToggle ==
    \/ \E c \in 1..MaxToggles, id \in DOMAIN players : togglePlayerSelectionCheck(c, id)
    \/ \E c \in 1..MaxToggles : togglePlayerSelectionWrite(c)
    \/ \E c \in 1..MaxToggles : togglePlayerSelectionUpdate(c)

SpecToggle == InitToggle /\ [][NextToggle]_vars

\* ---------------------------------------------------------------------
\* The custom-team page: players are put on and taken off the two teams
\* ---------------------------------------------------------------------
MaxCustomPlayers == 6   \* players loaded by the custom-team page

\* the membership test that looks at team1 only
AlreadyOnATeamFirstOnly(id) == id \in Range(team1)

\* team1.find((p) => p.id === player.id) || team2.find((p) => p.id === player.id)
AlreadyOnATeam(id) == id \in Range(team1) \/ id \in Range(team2)

handlePlayerSelect(id, teamNumber) ==
    /\ page = "custom"
    /\ IF AlreadyOnATeam(id)
       THEN UNCHANGED <<team1, team2>>
       ELSE IF teamNumber = 1
            THEN /\ team1' = IF Len(team1) < 5 THEN Append(team1, id) ELSE team1
                 /\ UNCHANGED team2
            ELSE /\ team2' = IF Len(team2) < 5 THEN Append(team2, id) ELSE team2
                 /\ UNCHANGED team1
    /\ UNCHANGED <<pageVars, pc, bestTeam1, bestTeam2, bestScore, attempt,
                   team1Temp, team2Temp, storeVars, cardVars, toggleVars>>

handlePlayerRemove(id, teamNumber) ==
    /\ page = "custom"
    /\ IF teamNumber = 1
       THEN /\ team1' = SelectSeq(team1, LAMBDA p : p # id)
            /\ UNCHANGED team2
       ELSE /\ team2' = SelectSeq(team2, LAMBDA p : p # id)
            /\ UNCHANGED team1
    /\ UNCHANGED <<pageVars, pc, bestTeam1, bestTeam2, bestScore, attempt,
                   team1Temp, team2Temp, storeVars, cardVars, toggleVars>>

\* the custom-team page after loadPlayers: both teams empty
InitCustom ==
    /\ page = "custom"
    /\ players = [i \in 1..MaxCustomPlayers |->
                     Loaded([mmr |-> 1000, category |-> "Expert", roles |-> {"Roam"}],
                            FALSE)]
    /\ selectedCount = 0
    /\ teams = NoTeams
    /\ error = Null
    /\ NoRun
    /\ StoreUnused
    /\ NoToggles
    /\ CardUnused

NextCustom ==
    \/ \E id \in DOMAIN players, teamNumber \in 1..2 : handlePlayerSelect(id, teamNumber)
    \/ \E id \in DOMAIN players, teamNumber \in 1..2 : handlePlayerRemove(id, teamNumber)

SpecCustom == InitCustom /\ [][NextCustom]_vars

\* ---------------------------------------------------------------------
\* Document store: player documents, team compositions, match results
\* ---------------------------------------------------------------------
MaxCompositions == 1    \* team compositions saved
MaxCalls == 2           \* recordMatchResult invocations
MaxDeleted == 1         \* player documents deleted

K_FACTOR == 32

\* a || b of JavaScript on numbers: 0 is falsy
OrElse(a, b) == IF a # 0 THEN a ELSE b

\* the stats record addPlayerToFirestore gives a new player (mmrChange is not
\* set there; the model holds the unset field as 0, which is how it is read)
InitialStats(mmr) ==
    [wins |-> 0, losses |-> 0, matchesPlayed |-> 0, winRate |-> 0,
     mmr |-> mmr, mmrChange |-> 0]

\* a player document; stats is <<>> (no stats record) or <<the record>>
PlayerDocument(mmr, stats) == [mmr |-> mmr, roles |-> {"Roam"}, stats |-> stats]

\* getPlayersFromFirestore: { id: doc.id, ...doc.data() }
AsPlayer(id, document) ==
    [id |-> id, mmr |-> document.mmr, roles |-> document.roles, stats |-> document.stats]

\* player.stats?.mmr || player.mmr
PlayerMmr(player) ==
    IF player.stats # <<>> THEN OrElse(player.stats[1].mmr, player.mmr) ELSE player.mmr

\* calculateTeamAverageMmr on player records
calculateTeamAverageMmrOf(team) ==
    IF Len(team) = 0 THEN 0
    ELSE RoundDiv(SumOver(DOMAIN team, [i \in DOMAIN team |-> PlayerMmr(team[i])]),
                  Len(team))

\* Math.round(K_FACTOR * (1 - calculateWinProbability(playerMmr, opponentMmr)))
\* for integer ratings, by the smallest opponentMmr - playerMmr that gives
\* each value (1 / (1 + 10^(-x / 400)) evaluated in double precision)
GainThresholds ==
    <<-719, -523, -428, -364, -314, -273, -237, -205, -176, -149, -124, -100,
      -77, -54, -32, -10, 11, 33, 55, 78, 101, 125, 150, 177, 206, 238, 274,
      315, 365, 429, 524, 720>>

RoundedGain(x) == Cardinality({k \in 1..K_FACTOR : GainThresholds[k] <= x})

\* the rating moves on a win only
calculateNewMmrLoserKeeps(playerMmr, opponentMmr, didWin) ==
    IF didWin THEN playerMmr + RoundedGain(opponentMmr - playerMmr) ELSE playerMmr

\* a loss rounds K_FACTOR * (0 - p), which is the gain of a win less K_FACTOR
calculateNewMmr(playerMmr, opponentMmr, didWin) ==
    playerMmr + RoundedGain(opponentMmr - playerMmr) - (IF didWin THEN 0 ELSE K_FACTOR)

\* team.map((player) => ...) of calculateMatchMmrChanges
UpdatedTeam(team, opponentAvgMmr, won) ==
    [i \in DOMAIN team |->
        LET player == team[i]
            currentMmr == PlayerMmr(player)
            newMmr == calculateNewMmr(currentMmr, opponentAvgMmr, won)
            currentStats == IF player.stats # <<>> THEN player.stats[1]
                            ELSE [InitialStats(player.mmr) EXCEPT !.mmrChange = 0]
        IN [player EXCEPT !.stats =
                <<[currentStats EXCEPT !.mmr = newMmr,
                                       !.mmrChange = newMmr - currentMmr]>>]]

\* Math.round(total / team.length): <<>> stands for NaN (an empty team)
AverageChange(updated, team) ==
    IF Len(team) = 0 THEN <<>>
    ELSE <<RoundDiv(SumOver(DOMAIN updated,
                            [i \in DOMAIN updated |-> updated[i].stats[1].mmrChange]),
                    Len(team))>>

\* both updated teams mapped from team1
calculateMatchMmrChangesOfTeam1(t1, t2, winningTeam) ==
    LET updatedTeam1 == UpdatedTeam(t1, calculateTeamAverageMmrOf(t2), winningTeam = "team1")
        updatedTeam2 == UpdatedTeam(t1, calculateTeamAverageMmrOf(t1), winningTeam = "team2")
    IN [updatedTeam1 |-> updatedTeam1,
        updatedTeam2 |-> updatedTeam2,
        team1MmrChange |-> AverageChange(updatedTeam1, t1),
        team2MmrChange |-> AverageChange(updatedTeam2, t2)]

\* team2 rated against the average of team1 as already updated
calculateMatchMmrChangesSequential(t1, t2, winningTeam) ==
    LET updatedTeam1 == UpdatedTeam(t1, calculateTeamAverageMmrOf(t2), winningTeam = "team1")
        updatedTeam2 == UpdatedTeam(t2, calculateTeamAverageMmrOf(updatedTeam1),
                                    winningTeam = "team2")
    IN [updatedTeam1 |-> updatedTeam1,
        updatedTeam2 |-> updatedTeam2,
        team1MmrChange |-> AverageChange(updatedTeam1, t1),
        team2MmrChange |-> AverageChange(updatedTeam2, t2)]

calculateMatchMmrChanges(t1, t2, winningTeam) ==
    LET team1AvgMmr == calculateTeamAverageMmrOf(t1)
        team2AvgMmr == calculateTeamAverageMmrOf(t2)
        updatedTeam1 == UpdatedTeam(t1, team2AvgMmr, winningTeam = "team1")
        updatedTeam2 == UpdatedTeam(t2, team1AvgMmr, winningTeam = "team2")
    IN [updatedTeam1 |-> updatedTeam1,
        updatedTeam2 |-> updatedTeam2,
        team1MmrChange |-> AverageChange(updatedTeam1, t1),
        team2MmrChange |-> AverageChange(updatedTeam2, t2)]

\* calculateWinRate, in tenths of a percent point (63 stands for 6.3)
calculateWinRate(wins, totalMatches) ==
    IF totalMatches = 0 THEN 0 ELSE RoundDiv(wins * 1000, totalMatches)

UpdatedStatsLossNotCounted(document, updatedPlayer, isWinner) ==
    LET currentStats == IF document.stats # <<>> THEN document.stats[1]
                        ELSE InitialStats(1000)
    IN [currentStats EXCEPT !.wins = IF isWinner THEN @ + 1 ELSE @,
                            !.matchesPlayed = @ + 1]

UpdatedStatsWinnerInverted(document, updatedPlayer, isWinner) ==
    LET currentStats == IF document.stats # <<>> THEN document.stats[1]
                        ELSE InitialStats(1000)
    IN [currentStats EXCEPT !.wins = IF isWinner THEN @ ELSE @ + 1,
                            !.losses = IF isWinner THEN @ + 1 ELSE @,
                            !.matchesPlayed = @ + 1]

\* the win rate taken from the wins read, not from the wins written
UpdatedStatsStaleWinRate(document, updatedPlayer, isWinner) ==
    LET currentStats == IF document.stats # <<>> THEN document.stats[1]
                        ELSE InitialStats(1000)
    IN [currentStats EXCEPT
            !.wins = IF isWinner THEN @ + 1 ELSE @,
            !.losses = IF isWinner THEN @ ELSE @ + 1,
            !.matchesPlayed = @ + 1,
            !.winRate = calculateWinRate(currentStats.wins,
                                         currentStats.matchesPlayed + 1)]

\* the stats the transaction writes for one participant
UpdatedStats(document, updatedPlayer, isWinner) ==
    LET currentStats == IF document.stats # <<>> THEN document.stats[1]
                        ELSE [InitialStats(OrElse(updatedPlayer.stats[1].mmr, 1000))
                                EXCEPT !.mmrChange = 0]
    IN [wins |-> IF isWinner THEN currentStats.wins + 1 ELSE currentStats.wins,
        losses |-> IF isWinner THEN currentStats.losses ELSE currentStats.losses + 1,
        matchesPlayed |-> currentStats.matchesPlayed + 1,
        winRate |-> calculateWinRate(
                        IF isWinner THEN currentStats.wins + 1 ELSE currentStats.wins,
                        currentStats.matchesPlayed + 1),
        mmr |-> OrElse(updatedPlayer.stats[1].mmr, currentStats.mmr),
        mmrChange |-> OrElse(updatedPlayer.stats[1].mmrChange, 0)]

\* playerRefsAndSnaps: the participants of team1, then those of team2
Participants(call) ==
    [i \in DOMAIN call.updatedTeam1 |->
        [updatedPlayer |-> call.updatedTeam1[i], isWinner |-> call.winningTeam = "team1"]]
    \o
    [i \in DOMAIN call.updatedTeam2 |->
        [updatedPlayer |-> call.updatedTeam2[i], isWinner |-> call.winningTeam = "team2"]]

\* the player documents after the writes of the transaction: every write is
\* computed from the snapshot read before any write, the last one stands
TransactionWrites(call) ==
    [id \in Ids |->
        LET entries == SelectSeq(Participants(call),
                                 LAMBDA e : e.updatedPlayer.id = id)
        IN IF entries = <<>> \/ playerDocs[id] = <<>>
           THEN playerDocs[id]
           ELSE <<[playerDocs[id][1] EXCEPT !.stats =
                     <<UpdatedStats(playerDocs[id][1], Last(entries).updatedPlayer,
                                    Last(entries).isWinner)>>]>>]

\* the message of the page's catch block
NotFoundMessageOfPage == "Failed to record match result. Please try again."

\* throw new Error("Team composition not found")
NotFoundMessage == "Team composition not found"
StorageFailure == "storage failure"

NewCall ==
    [pc |-> "new", teamCompositionId |-> 0, winningTeam |-> Null,
     updatedTeam1 |-> <<>>, updatedTeam2 |-> <<>>,
     team1MmrChange |-> <<>>, team2MmrChange |-> <<>>,
     committed |-> FALSE, error |-> Null]

\* the call is over: its result, without its locals
Ended(call, pc_, error_) ==
    [NewCall EXCEPT !.pc = pc_, !.committed = call.committed, !.error = error_]

\* saveTeamComposition: the two teams as the page holds them
saveTeamComposition(t1, t2) ==
    /\ Len(teamCompositions) < MaxCompositions
    /\ teamCompositions' = Append(teamCompositions,
          [team1 |-> [i \in DOMAIN t1 |-> AsPlayer(t1[i], playerDocs[t1[i]][1])],
           team2 |-> [i \in DOMAIN t2 |-> AsPlayer(t2[i], playerDocs[t2[i]][1])],
           matchResult |-> <<>>])
    /\ UNCHANGED <<playerDocs, matchResults, calls, pageVars, runVars, cardVars, toggleVars>>

\* deletePlayerFromFirestore
deletePlayerFromFirestore(id) ==
    /\ playerDocs[id] # <<>>
    /\ Cardinality({other \in Ids : playerDocs[other] = <<>>}) < MaxDeleted
    /\ playerDocs' = [playerDocs EXCEPT ![id] = <<>>]
    /\ UNCHANGED <<teamCompositions, matchResults, calls, pageVars, runVars, cardVars, toggleVars>>

\* recordMatchResult up to the transaction: the read of the team composition
\* and the rating changes computed from the players stored in it
recordMatchResultStart(c, teamCompositionId, winningTeam) ==
    /\ calls[c].pc = "new"
    /\ IF c = 1 THEN TRUE ELSE calls[c - 1].pc # "new"
    /\ LET call == [calls[c] EXCEPT !.teamCompositionId = teamCompositionId,
                                    !.winningTeam = winningTeam]
       IN \/ /\ teamCompositionId \notin DOMAIN teamCompositions
             /\ calls' = [calls EXCEPT ![c] = Ended(call, "thrown", NotFoundMessage)]
          \/ /\ teamCompositionId \in DOMAIN teamCompositions
             /\ LET teamComposition == teamCompositions[teamCompositionId]
                    changes == calculateMatchMmrChanges(teamComposition.team1,
                                                        teamComposition.team2,
                                                        winningTeam)
                IN calls' = [calls EXCEPT ![c] =
                       [call EXCEPT !.pc = "transaction",
                                    !.updatedTeam1 = changes.updatedTeam1,
                                    !.updatedTeam2 = changes.updatedTeam2,
                                    !.team1MmrChange = changes.team1MmrChange,
                                    !.team2MmrChange = changes.team2MmrChange]]
          \/ calls' = [calls EXCEPT ![c] = Ended(call, "thrown", StorageFailure)]
    /\ UNCHANGED <<playerDocs, teamCompositions, matchResults, pageVars, runVars, cardVars, toggleVars>>

\* runTransaction: the reads, the player writes and the annotation of the
\* team composition, committed as one; or the transaction fails as a whole
recordMatchResultTransaction(c) ==
    /\ calls[c].pc = "transaction"
    /\ \/ /\ playerDocs' = TransactionWrites(calls[c])
          /\ teamCompositions' =
                [teamCompositions EXCEPT ![calls[c].teamCompositionId].matchResult =
                    <<[winningTeam |-> calls[c].winningTeam,
                       mmrChanges |-> [team1 |-> calls[c].team1MmrChange,
                                       team2 |-> calls[c].team2MmrChange]]>>]
          /\ calls' = [calls EXCEPT ![c].pc = "addDoc", ![c].committed = TRUE]
       \/ /\ calls' = [calls EXCEPT ![c] = Ended(calls[c], "thrown", StorageFailure)]
          /\ UNCHANGED <<playerDocs, teamCompositions>>
    /\ UNCHANGED <<matchResults, pageVars, runVars, cardVars, toggleVars>>

\* addDoc(matchResultsCollection, matchResult) and the return of its id
recordMatchResultAddDoc(c) ==
    /\ calls[c].pc = "addDoc"
    /\ \/ /\ matchResults' = Append(matchResults,
                [teamCompositionId |-> calls[c].teamCompositionId,
                 winningTeam |-> calls[c].winningTeam,
                 mmrChanges |-> [team1 |-> calls[c].team1MmrChange,
                                 team2 |-> calls[c].team2MmrChange]])
          /\ calls' = [calls EXCEPT ![c] = Ended(calls[c], "returned", Null)]
       \/ /\ calls' = [calls EXCEPT ![c] = Ended(calls[c], "thrown", StorageFailure)]
          /\ UNCHANGED matchResults
    /\ UNCHANGED <<playerDocs, teamCompositions, pageVars, runVars, cardVars, toggleVars>>

\* the rating a player is entered with: getInitialMmr of the tier chosen,
\* Budlotay for the odd ids and Maaramay for the even ones
InitialMmr(id) == IF id % 2 = 1 THEN 1000 ELSE 1200

\* teams a page can hand to saveTeamComposition: disjoint, of stored players;
\* saveCurrentTeams saves whatever teams the balancer made, and the
\* randomizer page makes an empty team from a pool of one player per category
TeamPairs ==
    {pair \in [team1 : SUBSET Ids, team2 : SUBSET Ids] :
        /\ pair.team1 \cup pair.team2 # {}
        /\ pair.team1 \cap pair.team2 = {}
        /\ \A id \in pair.team1 \cup pair.team2 : playerDocs[id] # <<>>}

\* the ids of a set in ascending order
AsSeq(S) == SubSeqAt([i \in Ids |-> i], S)

PageUnused ==
    /\ page = Null
    /\ players = <<>>
    /\ selectedCount = 0
    /\ teams = NoTeams
    /\ error = Null
    /\ NoRun

\* players entered by addPlayerToFirestore (with stats) or by the version of
\* the application that kept no stats; nothing saved or recorded yet
InitMatch ==
    /\ \E withoutStats \in {S \in SUBSET Ids : Cardinality(S) <= 1} :
          playerDocs = [id \in Ids |->
              <<PlayerDocument(InitialMmr(id),
                               IF id \in withoutStats THEN <<>>
                               ELSE <<InitialStats(InitialMmr(id))>>)>>]
    /\ teamCompositions = <<>>
    /\ matchResults = <<>>
    /\ calls = [c \in 1..MaxCalls |-> NewCall]
    /\ PageUnused
    /\ CardUnused
    /\ NoToggles

NextMatch ==
    \/ \E pair \in TeamPairs : saveTeamComposition(AsSeq(pair.team1), AsSeq(pair.team2))
    \/ \E id \in Ids : deletePlayerFromFirestore(id)
    \/ \E c \in 1..MaxCalls, teamCompositionId \in 1..(MaxCompositions + 1),
          winningTeam \in {"team1", "team2"} :
          recordMatchResultStart(c, teamCompositionId, winningTeam)
    \/ \E c \in 1..MaxCalls : recordMatchResultTransaction(c)
    \/ \E c \in 1..MaxCalls : recordMatchResultAddDoc(c)

SpecMatch == InitMatch /\ [][NextMatch]_vars

\* ---------------------------------------------------------------------
\* Tiers, and the rating of two players over one-against-one matches
\* ---------------------------------------------------------------------
MaxMatches == 5     \* matches the two players play against each other

\* the ladder of MmrTier, lowest first
MmrTiers ==
    <<"Budlot", "Budlotay", "Maaramay", "Maaram", "Makaritay", "Makarit",
      "MakaritKaritan", "Gikakariti">>

DEFAULT_MMR_VALUES ==
    [tier \in Range(MmrTiers) |->
        CASE tier = "Budlot" -> 900
          [] tier = "Budlotay" -> 1000
          [] tier = "Maaramay" -> 1200
          [] tier = "Maaram" -> 1400
          [] tier = "Makaritay" -> 1600
          [] tier = "Makarit" -> 1800
          [] tier = "MakaritKaritan" -> 2000
          [] tier = "Gikakariti" -> 2200]

getInitialMmr(tier) == DEFAULT_MMR_VALUES[tier]

\* every rung entered with > in place of >=
getMmrTierNameStrict(mmr) ==
    IF mmr > 2200 THEN "Gikakariti"
    ELSE IF mmr > 2000 THEN "MakaritKaritan"
    ELSE IF mmr > 1800 THEN "Makarit"
    ELSE IF mmr > 1600 THEN "Makaritay"
    ELSE IF mmr > 1400 THEN "Maaram"
    ELSE IF mmr > 1200 THEN "Maaramay"
    ELSE IF mmr > 1000 THEN "Budlotay"
    ELSE "Budlot"

\* the names of the rungs at 1000 and 1200 exchanged
getMmrTierNameExchanged(mmr) ==
    IF mmr >= 2200 THEN "Gikakariti"
    ELSE IF mmr >= 2000 THEN "MakaritKaritan"
    ELSE IF mmr >= 1800 THEN "Makarit"
    ELSE IF mmr >= 1600 THEN "Makaritay"
    ELSE IF mmr >= 1400 THEN "Maaram"
    ELSE IF mmr >= 1200 THEN "Budlotay"
    ELSE IF mmr >= 1000 THEN "Maaramay"
    ELSE "Budlot"

getMmrTierName(mmr) ==
    IF mmr >= 2200 THEN "Gikakariti"
    ELSE IF mmr >= 2000 THEN "MakaritKaritan"
    ELSE IF mmr >= 1800 THEN "Makarit"
    ELSE IF mmr >= 1600 THEN "Makaritay"
    ELSE IF mmr >= 1400 THEN "Maaram"
    ELSE IF mmr >= 1200 THEN "Maaramay"
    ELSE IF mmr >= 1000 THEN "Budlotay"
    ELSE "Budlot"

\* a player as addPlayerToFirestore stores and getPlayersFromFirestore loads it
NewPlayer(id, mmr) == AsPlayer(id, PlayerDocument(mmr, <<InitialStats(mmr)>>))

\* player.stats?.matchesPlayed || 0
MatchesPlayed(player) ==
    IF player.stats # <<>> THEN player.stats[1].matchesPlayed ELSE 0

\* the ratings the two players start from: the default of a tier, or 1500
\* reached through earlier matches
StartRatings == {DEFAULT_MMR_VALUES[tier] : tier \in Range(MmrTiers)} \cup {1500}

\* a match of playerA (team1) against playerB (team2), saved and recorded:
\* the rating changes of calculateMatchMmrChanges, written by the transaction
playMatch(winningTeam) ==
    /\ playerA # NoPlayer
    /\ MatchesPlayed(playerA) < MaxMatches
    /\ LET changes == calculateMatchMmrChanges(<<playerA>>, <<playerB>>, winningTeam)
       IN /\ playerA' = [playerA EXCEPT !.stats =
                           <<UpdatedStats(playerA, changes.updatedTeam1[1],
                                          winningTeam = "team1")>>]
          /\ playerB' = [playerB EXCEPT !.stats =
                           <<UpdatedStats(playerB, changes.updatedTeam2[1],
                                          winningTeam = "team2")>>]
    /\ UNCHANGED <<enteredTier, rd, reliability, matchesNeeded, editedTier,
                   pageVars, runVars, storeVars, toggleVars>>

InitRating ==
    /\ \/ \E tier \in Range(MmrTiers) :
             /\ enteredTier = tier
             /\ playerA = NewPlayer(1, getInitialMmr(tier))
       \/ /\ enteredTier = Null
          /\ playerA = NewPlayer(1, 1500)
    /\ \E mmr \in StartRatings : playerB = NewPlayer(2, mmr)
    /\ rd = <<>> /\ reliability = <<>> /\ matchesNeeded = <<>>
    /\ editedTier = Null
    /\ PageUnused
    /\ StoreUnused
    /\ NoToggles

\* updatePlayerInFirestore: stats.mmr follows mmr only when the update carries
\* a stats record with no match played; updateDoc then writes the fields given
\* (an update without stats is held with stats = <<>>)
updatePlayerInFirestore(document, updatedPlayer) ==
    LET stats == IF /\ updatedPlayer.stats # <<>>
                    /\ updatedPlayer.stats[1].matchesPlayed = 0
                 THEN <<[updatedPlayer.stats[1] EXCEPT !.mmr = updatedPlayer.mmr]>>
                 ELSE updatedPlayer.stats
    IN [document EXCEPT !.mmr = updatedPlayer.mmr,
                        !.stats = IF stats # <<>> THEN stats ELSE @]

\* updatePlayer of the players page: name, mmr of the tier chosen and roles
updatePlayer(tier) ==
    /\ playerA # NoPlayer
    /\ playerA' = updatePlayerInFirestore(playerA,
                      [mmr |-> DEFAULT_MMR_VALUES[tier], stats |-> <<>>])
    /\ editedTier' = tier
    /\ UNCHANGED <<playerB, enteredTier, rd, reliability, matchesNeeded,
                   pageVars, runVars, storeVars, toggleVars>>

NextRating ==
    \/ \E winningTeam \in {"team1", "team2"} : playMatch(winningTeam)
    \/ \E tier \in Range(MmrTiers) : updatePlayer(tier)

SpecRating == InitRating /\ [][NextRating]_vars

\* ---------------------------------------------------------------------
\* Rating deviation, reliability and matches needed (glicko2Service.ts)
\*
\* Deviations on the display scale are held in thousandths (350000 stands
\* for 350). A deviation on the internal scale is held in the unit
\* 1 / 173.7178 of a thousandth, so that rd / 173.7178 and rd * 173.7178
\* keep the number: that round trip is exact in double precision for the
\* deviations playerToGlicko2 produces. A reliability is held in 300000ths.
\* ---------------------------------------------------------------------
MaxDeviation == 400     \* largest display-scale deviation given to the functions

Max(a, b) == IF a > b THEN a ELSE b

\* 350 * Math.exp(-matchesPlayed / 2.04) for matchesPlayed = 0, 1, 2, ...,
\* evaluated in double precision, in thousandths (rounded down)
DecayTable ==
    <<350000, 214377, 131307, 80426, 49261, 30173, 18481, 11319, 6933, 4246,
      2601, 1593, 975, 597, 366, 224, 137>>

\* past the table the value is positive and below its last entry
Decay(matchesPlayed) ==
    IF matchesPlayed < Len(DecayTable) THEN DecayTable[matchesPlayed + 1] ELSE 0

\* the deviation without Math.max(..., 50)
playerToGlicko2NoFloor(player) ==
    [rating |-> (PlayerMmr(player) - 1500) * 1000,
     rd |-> Decay(MatchesPlayed(player)),
     volatility |-> 60]

\* rating and rd on the internal scale, volatility 0.06 in thousandths
playerToGlicko2(player) ==
    [rating |-> (PlayerMmr(player) - 1500) * 1000,
     rd |-> Max(Decay(MatchesPlayed(player)), 50000),
     volatility |-> 60]

\* the reliability 1.0
FullReliability == (350 - 50) * 1000

\* the value is returned without Math.max(0, Math.min(1, ...))
calculateRatingReliabilityNotClamped(deviation) ==
    LET glicko1Rd == deviation
    IN FullReliability - (glicko1Rd - 50000)

\* 1 - (glicko1Rd - 50) / (350 - 50), clamped to 0..1
calculateRatingReliability(deviation) ==
    LET glicko1Rd == deviation
        reliability_ == FullReliability - (glicko1Rd - 50000)
    IN Max(0, Min(FullReliability, reliability_))

TOTAL_CALIBRATION_MATCHES == 7

\* 350 * Math.exp(j / 2.04) for j = 1, 2, 3, in thousandths (rounded up)
GrowthTable == <<571423, 932926, 1523128>>

\* Math.ceil(-2.04 * Math.log(glicko1Rd / 350)) for 0 < glicko1Rd: the least
\* k with glicko1Rd >= 350 * e^(-k / 2.04); an entry of DecayTable stands for
\* the exact value it was rounded from
CeilInverseDecay(glicko1Rd) ==
    IF glicko1Rd <= 350000
    THEN CHOOSE k \in 0..Len(DecayTable) :
            /\ glicko1Rd >= Decay(k)
            /\ \A j \in 0..(k - 1) : glicko1Rd < Decay(j)
    ELSE 0 - Cardinality({j \in DOMAIN GrowthTable : glicko1Rd >= GrowthTable[j]})

\* the function without "if (glicko1Rd <= 100) return 0"
getMatchesForReliableRatingNoShortcut(deviation) ==
    LET glicko1Rd == deviation
    IN Max(0, TOTAL_CALIBRATION_MATCHES - CeilInverseDecay(glicko1Rd))

getMatchesForReliableRating(deviation) ==
    LET glicko1Rd == deviation
    IN IF glicko1Rd <= 100000 THEN 0
       ELSE Max(0, TOTAL_CALIBRATION_MATCHES - CeilInverseDecay(glicko1Rd))

\* the deviations of the two rows shown: any multiple of 10 up to
\* MaxDeviation, or the deviation of a player with 1, 2 or 3 matches played
Deviations ==
    {10000 * n : n \in 0..(MaxDeviation \div 10)}
    \cup {playerToGlicko2([NewPlayer(1, 1000) EXCEPT
                              !.stats[1].matchesPlayed = m]).rd : m \in 1..3}

Rows == 1..2

\* the rows of the players list: reliability and matches needed of each
showRatings ==
    /\ reliability = <<>>
    /\ rd # <<>>
    /\ reliability' = [row \in Rows |-> calculateRatingReliability(rd[row])]
    /\ matchesNeeded' = [row \in Rows |-> getMatchesForReliableRating(rd[row])]
    /\ UNCHANGED <<playerA, playerB, enteredTier, editedTier, rd, pageVars, runVars,
                   storeVars, toggleVars>>

InitReliability ==
    /\ rd \in [Rows -> Deviations]
    /\ reliability = <<>>
    /\ matchesNeeded = <<>>
    /\ playerA = NoPlayer /\ playerB = NoPlayer
    /\ enteredTier = Null
    /\ editedTier = Null
    /\ PageUnused
    /\ StoreUnused
    /\ NoToggles

NextReliability == showRatings

SpecReliability == InitReliability /\ [][NextReliability]_vars

\* ---------------------------------------------------------------------
\* Properties of the balancer
\* ---------------------------------------------------------------------
\* t1 and t2 together hold every player of the pool exactly once
Partitions(t1, t2, pool) ==
    /\ Len(t1) + Len(t2) = Len(pool)
    /\ Range(t1) \cup Range(t2) = Range(pool)
    /\ Range(t1) \cap Range(t2) = {}

\* the sizes sum to n and differ by at most 1
EvenSplit(t1, t2, n) ==
    /\ Len(t1) + Len(t2) = n
    /\ Abs(Len(t1) - Len(t2)) <= 1

\* C1: on both pages the seeded teams, the best teams, the temporary copies
\* after every simulated swap and the teams handed to setTeams hold every
\* selected player exactly once: none dropped, none twice, none on both teams.
C1_Partition ==
    /\ pc = "trial" =>
          /\ Partitions(team1, team2, SelectedPlayers)
          /\ Partitions(bestTeam1, bestTeam2, SelectedPlayers)
          /\ attempt > 0 => Partitions(team1Temp, team2Temp, SelectedPlayers)
    /\ teams # NoTeams => Partitions(teams[1].team1, teams[1].team2, SelectedPlayers)

C1_Witness ==
    /\ pc = "trial" /\ attempt = TrialLimit
    /\ Len(SelectedPlayers) >= 3
    /\ team1Temp # team1
    /\ bestTeam1 # team1

\* C2: on the teams page (snake draft) the team sizes sum to the pool size
\* and differ by at most 1, from the seed to the teams handed to setTeams.
C2_SnakeSizes ==
    page = "mmr" =>
        /\ pc = "trial" =>
              /\ EvenSplit(team1, team2, Len(SelectedPlayers))
              /\ EvenSplit(bestTeam1, bestTeam2, Len(SelectedPlayers))
        /\ teams # NoTeams => EvenSplit(teams[1].team1, teams[1].team2, Len(SelectedPlayers))

C2_Witness ==
    /\ page = "mmr" /\ teams # NoTeams
    /\ Len(SelectedPlayers) % 2 = 1
    /\ Len(teams[1].team1) # Len(teams[1].team2)

\* C3: on the randomizer page (category-stratified) the team sizes sum to
\* the pool size and differ by at most 1, whatever the categories are.
C3_CategorySizes ==
    page = "category" =>
        /\ pc = "trial" =>
              /\ EvenSplit(team1, team2, Len(SelectedPlayers))
              /\ EvenSplit(bestTeam1, bestTeam2, Len(SelectedPlayers))
        /\ teams # NoTeams => EvenSplit(teams[1].team1, teams[1].team2, Len(SelectedPlayers))

\* C4: with fewer than 2 players selected, randomizeTeams sets the error
\* message, does not enter the partition and leaves the stored teams alone.
C4_TooFewIsReported ==
    [][(TooFewSelectedInPool /\ (randomizeTeams \/ randomizeTeamsByCategory))
          => /\ error' = TooFewMessage
             /\ teams' = teams
             /\ pc' = "idle"]_vars

C4_Witness ==
    /\ page = "mmr" /\ pc = "idle"
    /\ teams # NoTeams
    /\ Len(SelectedPlayers) < 2
    /\ error = TooFewMessage

\* C5: bestScore is the score of the best arrangement and never below the
\* score of the seeded arrangement; over a trial it never decreases, and the
\* best arrangement is replaced only by copies that score strictly higher;
\* the teams handed to setTeams score exactly bestScore.
C5_BestNeverRegresses ==
    [][/\ pc' = "trial" =>
            /\ bestScore' = Score(bestTeam1', bestTeam2')
            /\ bestScore' >= Score(team1', team2')
       /\ (pc = "trial" /\ pc' = "trial") =>
            /\ bestScore' >= bestScore
            /\ <<bestTeam1', bestTeam2'>> # <<bestTeam1, bestTeam2>> =>
                  /\ Score(team1Temp', team2Temp') > bestScore
                  /\ <<bestTeam1', bestTeam2'>> = <<team1Temp', team2Temp'>>
       /\ (pc = "trial" /\ pc' = "idle") =>
            /\ Score(teams'[1].team1, teams'[1].team2) = bestScore
            /\ bestScore >= Score(team1, team2)]_vars

C5_Witness ==
    /\ pc = "trial"
    /\ bestScore > Score(team1, team2)
    /\ attempt = TrialLimit


\* ---------------------------------------------------------------------
\* Properties of recordMatchResult
\* ---------------------------------------------------------------------
\* wins, losses and matches played of a player record or document, a missing
\* stats record counting as no match played
Counts(player) ==
    IF player.stats = <<>> THEN [wins |-> 0, losses |-> 0, matchesPlayed |-> 0]
    ELSE [wins |-> player.stats[1].wins, losses |-> player.stats[1].losses,
          matchesPlayed |-> player.stats[1].matchesPlayed]

IdsOf(team) == {team[i].id : i \in DOMAIN team}

\* the step is the commit of the transaction of call c
Commits(c) == calls[c].pc = "transaction" /\ calls'[c].pc = "addDoc"

\* C6: every stored player has matchesPlayed = wins + losses, whatever
\* matches were recorded, also a player that started without a stats record.
C6_MatchesPlayedIsWinsPlusLosses ==
    \A id \in Ids :
        playerDocs[id] # <<>> =>
            Counts(playerDocs[id][1]).matchesPlayed
                = Counts(playerDocs[id][1]).wins + Counts(playerDocs[id][1]).losses

C6_Witness ==
    \E id \in Ids :
        /\ playerDocs[id] # <<>>
        /\ Counts(playerDocs[id][1]).wins = 1
        /\ Counts(playerDocs[id][1]).losses = 1

\* C7: the rating a transaction writes for a participant is the rating
\* stored for that participant when the transaction read it, plus the change
\* of this match, so that no recording overwrites the change of another.
C7_RatingWrittenFromRatingRead ==
    [][\A c \in 1..MaxCalls : Commits(c) =>
          \A id \in Ids :
              playerDocs'[id] # playerDocs[id] =>
                  playerDocs'[id][1].stats[1].mmr
                      = PlayerMmr(playerDocs[id][1])
                        + playerDocs'[id][1].stats[1].mmrChange]_vars

\* C8: a call that ended with an error has persisted nothing, and a call
\* that returned has persisted the transaction and the match record.
C8_AllOrNothing ==
    \A c \in 1..MaxCalls :
        /\ calls[c].pc = "thrown" => ~calls[c].committed
        /\ calls[c].pc = "returned" => calls[c].committed

\* C9: the commit of a recording gives every participant with a stored
\* document one more match played, the winners one more win and the others
\* one more loss, and writes no other player; no other step of a recording
\* changes the statistics of a player.
C9_EachParticipantOnce ==
    [][/\ \A c \in 1..MaxCalls : Commits(c) =>
            LET teamComposition == teamCompositions[calls[c].teamCompositionId]
                winners == IdsOf(IF calls[c].winningTeam = "team1"
                                 THEN teamComposition.team1 ELSE teamComposition.team2)
                losers == IdsOf(IF calls[c].winningTeam = "team1"
                                THEN teamComposition.team2 ELSE teamComposition.team1)
            IN \A id \in Ids :
                  IF id \in winners \cup losers /\ playerDocs[id] # <<>>
                  THEN /\ playerDocs'[id] # <<>>
                       /\ Counts(playerDocs'[id][1]) =
                            [wins |-> Counts(playerDocs[id][1]).wins
                                        + (IF id \in winners THEN 1 ELSE 0),
                             losses |-> Counts(playerDocs[id][1]).losses
                                        + (IF id \in losers THEN 1 ELSE 0),
                             matchesPlayed |-> Counts(playerDocs[id][1]).matchesPlayed + 1]
                  ELSE playerDocs'[id] = playerDocs[id]
       /\ (\A c \in 1..MaxCalls : ~Commits(c)) =>
            \A id \in Ids : playerDocs'[id] = playerDocs[id] \/ playerDocs'[id] = <<>>]_vars

C9_Witness ==
    /\ \E c \in 1..MaxCalls : calls[c].pc = "returned"
    /\ \E winner, loser, other \in Ids :
          /\ playerDocs[winner] # <<>> /\ playerDocs[loser] # <<>> /\ playerDocs[other] # <<>>
          /\ Counts(playerDocs[winner][1]) = [wins |-> 1, losses |-> 0, matchesPlayed |-> 1]
          /\ Counts(playerDocs[loser][1]) = [wins |-> 0, losses |-> 1, matchesPlayed |-> 1]
          /\ Counts(playerDocs[other][1]).matchesPlayed = 0

\* the updated team holds the players of the input team, in its order, with
\* nothing but stats.mmr and stats.mmrChange changed
SamePlayers(updated, team) ==
    /\ Len(updated) = Len(team)
    /\ \A i \in DOMAIN team :
          /\ updated[i].id = team[i].id
          /\ updated[i].mmr = team[i].mmr
          /\ updated[i].roles = team[i].roles
          /\ Counts(updated[i]) = Counts(team[i])

\* C10: calculateMatchMmrChanges returns the players of team1 as updatedTeam1
\* and those of team2 as updatedTeam2, in the same order, with id, roles, wins,
\* losses and matchesPlayed as in the input; the teams of the stored
\* composition are never changed.
C10_MembershipKept ==
    /\ [](\A c \in 1..MaxCalls :
            calls[c].pc \in {"transaction", "addDoc"} =>
                /\ SamePlayers(calls[c].updatedTeam1,
                               teamCompositions[calls[c].teamCompositionId].team1)
                /\ SamePlayers(calls[c].updatedTeam2,
                               teamCompositions[calls[c].teamCompositionId].team2))
    /\ [][\A k \in DOMAIN teamCompositions :
            /\ teamCompositions'[k].team1 = teamCompositions[k].team1
            /\ teamCompositions'[k].team2 = teamCompositions[k].team2]_vars

C10_Witness ==
    \E c \in 1..MaxCalls :
        /\ calls[c].pc = "transaction"
        /\ Len(calls[c].updatedTeam1) >= 2
        /\ \E i \in DOMAIN calls[c].updatedTeam1 :
              /\ teamCompositions[calls[c].teamCompositionId].team1[i].stats = <<>>
              /\ calls[c].updatedTeam1[i].stats[1].mmrChange # 0

\* C11: a recording of a team composition with an empty team is refused: it
\* commits nothing, so no participant's rating or statistics is written and
\* no rating change is stored for it.
C11_EmptyRosterRefused ==
    [][\A c \in 1..MaxCalls : Commits(c) =>
          /\ teamCompositions[calls[c].teamCompositionId].team1 # <<>>
          /\ teamCompositions[calls[c].teamCompositionId].team2 # <<>>]_vars

TierIndex(tier) == CHOOSE i \in DOMAIN MmrTiers : MmrTiers[i] = tier

\* C13: a player entered with a tier carries that tier's default rating, and
\* the tier name of that rating is the tier entered, for each of the 8 tiers.
C13_TierOfDefault ==
    (playerA # NoPlayer /\ enteredTier # Null /\ MatchesPlayed(playerA) = 0) =>
        /\ PlayerMmr(playerA) = DEFAULT_MMR_VALUES[enteredTier]
        /\ getMmrTierName(PlayerMmr(playerA)) = enteredTier

C13_Witness ==
    /\ playerA # NoPlayer
    /\ enteredTier = "Budlotay"
    /\ MatchesPlayed(playerA) = 0
    /\ getMmrTierName(PlayerMmr(playerA)) = "Budlotay"

\* C14: the tier never runs against the rating: of two players the one with
\* the higher rating has the same or a higher tier, and over a match a player
\* whose rating rises keeps or raises the tier, one whose rating falls keeps
\* or lowers it.
C14_TierMonotonic ==
    /\ [](playerA # NoPlayer =>
            (PlayerMmr(playerA) >= PlayerMmr(playerB) =>
                TierIndex(getMmrTierName(PlayerMmr(playerA)))
                    >= TierIndex(getMmrTierName(PlayerMmr(playerB)))))
    /\ [](playerA # NoPlayer =>
            (PlayerMmr(playerB) >= PlayerMmr(playerA) =>
                TierIndex(getMmrTierName(PlayerMmr(playerB)))
                    >= TierIndex(getMmrTierName(PlayerMmr(playerA)))))
    /\ [][playerA # NoPlayer =>
            /\ PlayerMmr(playerA') >= PlayerMmr(playerA) =>
                  TierIndex(getMmrTierName(PlayerMmr(playerA')))
                      >= TierIndex(getMmrTierName(PlayerMmr(playerA)))
            /\ PlayerMmr(playerA') <= PlayerMmr(playerA) =>
                  TierIndex(getMmrTierName(PlayerMmr(playerA')))
                      <= TierIndex(getMmrTierName(PlayerMmr(playerA)))]_vars

C14_Witness ==
    /\ playerA # NoPlayer
    /\ enteredTier = "Maaramay"
    /\ PlayerMmr(playerA) < 1200
    /\ getMmrTierName(PlayerMmr(playerA)) = "Budlotay"
    /\ PlayerMmr(playerB) > 1200
    /\ getMmrTierName(PlayerMmr(playerB)) = "Maaramay"

\* C15: a match between two players of equal rating R gives the winner
\* R + 16 and the loser R - 16; 1500 against 1500 won by playerA gives
\* playerA 1516 and playerB 1484.
C15_EqualRatings ==
    [][(/\ playerA # NoPlayer
        /\ MatchesPlayed(playerA') = MatchesPlayed(playerA) + 1
        /\ PlayerMmr(playerA) = PlayerMmr(playerB)) =>
          LET R == PlayerMmr(playerA)
              aWon == playerA'.stats[1].wins = playerA.stats[1].wins + 1
          IN /\ PlayerMmr(playerA') = IF aWon THEN R + 16 ELSE R - 16
             /\ PlayerMmr(playerB') = IF aWon THEN R - 16 ELSE R + 16
             /\ playerA'.stats[1].mmrChange = IF aWon THEN 16 ELSE -16
             /\ (R = 1500 /\ aWon) =>
                    PlayerMmr(playerA') = 1516 /\ PlayerMmr(playerB') = 1484]_vars

C15_Witness ==
    /\ playerA # NoPlayer
    /\ MatchesPlayed(playerA) = 1
    /\ playerA.stats[1].wins = 1
    /\ PlayerMmr(playerA) = 1516
    /\ PlayerMmr(playerB) = 1484

\* ---------------------------------------------------------------------
\* Properties of the deviation, the reliability and the matches needed
\* ---------------------------------------------------------------------
\* C16: the display-scale deviation playerToGlicko2 derives lies in 50..350,
\* is 350 with no match played, and never rises when a match is played.
C16_DeviationDecays ==
    /\ [](playerA # NoPlayer =>
            /\ playerToGlicko2(playerA).rd >= 50000
            /\ playerToGlicko2(playerA).rd <= 350000
            /\ MatchesPlayed(playerA) = 0 => playerToGlicko2(playerA).rd = 350000)
    /\ [][playerA # NoPlayer =>
            playerToGlicko2(playerA').rd <= playerToGlicko2(playerA).rd]_vars

C16_Witness ==
    /\ playerA # NoPlayer
    /\ MatchesPlayed(playerA) = 4
    /\ playerToGlicko2(playerA).rd = 50000
    /\ Decay(MatchesPlayed(playerA)) < 50000

\* C17: calculateRatingReliability is 1.0 at a display-scale deviation of 50
\* or lower, 0.0 at 350 or higher, always within 0..1, and of two deviations
\* the higher never has the higher reliability.
C17_Reliability ==
    reliability # <<>> =>
        /\ \A row \in Rows :
              /\ reliability[row] >= 0 /\ reliability[row] <= FullReliability
              /\ rd[row] <= 50000 => reliability[row] = FullReliability
              /\ rd[row] >= 350000 => reliability[row] = 0
        /\ rd[1] >= rd[2] => reliability[1] <= reliability[2]

C17_Witness ==
    /\ reliability # <<>>
    /\ rd[1] = 400000 /\ reliability[1] = 0
    /\ rd[2] = 200000 /\ reliability[2] = FullReliability \div 2

\* k = ceil(-2.04 x ln(u / 350)): u has decayed through k matches or fewer
\* but not through k - 1
InverseDecayIs(u, k) == u >= Decay(k) /\ (k = 0 \/ u < Decay(k - 1))

\* C18 as claimed: for every display-scale deviation u in 50..350 the result
\* is max(0, 7 - ceil(-2.04 x ln(u / 350))).
C18_MatchesNeededEverywhere ==
    matchesNeeded # <<>> =>
        \A row \in Rows :
            (rd[row] >= 50000 /\ rd[row] <= 350000) =>
                \E k \in 0..TOTAL_CALIBRATION_MATCHES :
                    /\ InverseDecayIs(rd[row], k)
                    /\ matchesNeeded[row] = Max(0, 7 - k)

\* C18 as amended: the result is 0 for a display-scale deviation u of 100 or
\* lower, and max(0, 7 - ceil(-2.04 x ln(u / 350))) for u above 100 up to 350.
C18_MatchesNeeded ==
    matchesNeeded # <<>> =>
        \A row \in Rows :
            /\ rd[row] <= 100000 => matchesNeeded[row] = 0
            /\ (rd[row] > 100000 /\ rd[row] <= 350000) =>
                  \E k \in 0..TOTAL_CALIBRATION_MATCHES :
                      /\ InverseDecayIs(rd[row], k)
                      /\ matchesNeeded[row] = Max(0, 7 - k)

C18_Witness ==
    /\ matchesNeeded # <<>>
    /\ rd[1] = 131307 /\ matchesNeeded[1] = 5
    /\ rd[2] = 80426 /\ matchesNeeded[2] = 0

\* ---------------------------------------------------------------------
\* The pool of 10: five players rated 1500, five rated 1000, every role twice
\* ---------------------------------------------------------------------
IsScenarioPool ==
    /\ page = "mmr"
    /\ Len(players) = 10
    /\ \A i \in DOMAIN players :
          /\ players[i].isSelected
          /\ players[i].mmr = IF i <= 5 THEN 1500 ELSE 1000
          /\ Cardinality(players[i].roles) = 1
    /\ \A r \in Roles : Cardinality({i \in DOMAIN players : players[i].roles = {r}}) = 2

RoleScores(t1, t2) == calculateTeamRoleScore(t1) + calculateTeamRoleScore(t2)

\* C20 as claimed: for the pool of 10 the teams returned have average ratings
\* within 1 point of each other and each team covers all 5 roles (role score
\* 50 each).
C20_ScenarioBalanced ==
    (IsScenarioPool /\ teams # NoTeams) =>
        /\ Abs(calculateTeamAverageMmr(teams[1].team1)
               - calculateTeamAverageMmr(teams[1].team2)) <= 1
        /\ calculateTeamRoleScore(teams[1].team1) = 50
        /\ calculateTeamRoleScore(teams[1].team2) = 50

\* C20 as amended: for the pool of 10 the teams returned have 5 players each
\* and average ratings exactly 100 points apart, their role scores sum to no
\* less than those of the seeded teams, and each team covers all 5 roles
\* (role score 50 each) when the seeded teams do.
C20_Scenario ==
    [][(IsScenarioPool /\ pc = "trial" /\ pc' = "idle") =>
          /\ Len(teams'[1].team1) = 5 /\ Len(teams'[1].team2) = 5
          /\ Abs(calculateTeamAverageMmr(teams'[1].team1)
                 - calculateTeamAverageMmr(teams'[1].team2)) = 100
          /\ RoleScores(teams'[1].team1, teams'[1].team2) >= RoleScores(team1, team2)
          /\ RoleScores(team1, team2) = 100 =>
                /\ calculateTeamRoleScore(teams'[1].team1) = 50
                /\ calculateTeamRoleScore(teams'[1].team2) = 50]_vars

C20_Witness ==
    /\ IsScenarioPool /\ teams # NoTeams
    /\ players[2].roles = {"Mid"} /\ players[6].roles = {"Roam"}
    /\ calculateTeamRoleScore(teams[1].team1) = 50
    /\ calculateTeamRoleScore(teams[1].team2) = 50
    /\ calculateTeamAverageMmr(teams[1].team1) = 1200
    /\ calculateTeamAverageMmr(teams[1].team2) = 1300

\* ---------------------------------------------------------------------
\* The snake draft, position by position
\* ---------------------------------------------------------------------
\* the sorted position (counted from 0) of the k-th member of team1: 0, 3, 4, 7, 8, ...
Team1Pick(k) == 4 * ((k - 1) \div 2) + (IF (k - 1) % 2 = 0 THEN 0 ELSE 3)

\* the sorted position (counted from 0) of the k-th member of team2: 1, 2, 5, 6, 9, ...
Team2Pick(k) == 4 * ((k - 1) \div 2) + (IF (k - 1) % 2 = 0 THEN 1 ELSE 2)

\* the seeded teams put back in draft order
DraftOrder ==
    [i \in 1..(Len(team1) + Len(team2)) |->
        IF \E k \in DOMAIN team1 : Team1Pick(k) = i - 1
        THEN team1[CHOOSE k \in DOMAIN team1 : Team1Pick(k) = i - 1]
        ELSE team2[CHOOSE k \in DOMAIN team2 : Team2Pick(k) = i - 1]]

\* C21: the seeded teams of the teams page are the selected players sorted by
\* effective rating in descending order and dealt by position: position i
\* (from 0) is on team1 when i mod 4 is 0 or 3 and on team2 when it is 1 or 2,
\* each team in sorted order.
C21_SnakeDraft ==
    (page = "mmr" /\ pc = "trial") =>
        LET n == Len(SelectedPlayers) IN
        /\ Len(team1) = Cardinality({i \in 0..(n - 1) : i % 4 = 0 \/ i % 4 = 3})
        /\ Len(team2) = Cardinality({i \in 0..(n - 1) : i % 4 = 1 \/ i % 4 = 2})
        /\ Range(DraftOrder) = Range(SelectedPlayers)
        /\ \A i, j \in DOMAIN DraftOrder :
              i < j => EffectiveMmr(DraftOrder[i]) >= EffectiveMmr(DraftOrder[j])

\* the draft had to reorder the list: a lower-rated player is listed first
C21_Witness ==
    /\ page = "mmr" /\ pc = "trial"
    /\ Len(team1) + Len(team2) >= 3
    /\ \E i, j \in DOMAIN SelectedPlayers :
          /\ i < j
          /\ EffectiveMmr(SelectedPlayers[i]) < EffectiveMmr(SelectedPlayers[j])

\* ---------------------------------------------------------------------
\* Trials start from the seeded teams
\* ---------------------------------------------------------------------
\* b1, b2 are a1, a2 with one member of a1 and one member of a2 exchanged
OneSwapApart(a1, a2, b1, b2) ==
    /\ Len(b1) = Len(a1) /\ Len(b2) = Len(a2)
    /\ \E i \in DOMAIN a1, j \in DOMAIN a2 :
          /\ b1[i] = a2[j] /\ b2[j] = a1[i]
          /\ \A k \in DOMAIN a1 : k # i => b1[k] = a1[k]
          /\ \A k \in DOMAIN a2 : k # j => b2[k] = a2[k]

SeedOrOneSwap(b1, b2) ==
    \/ b1 = team1 /\ b2 = team2
    \/ OneSwapApart(team1, team2, b1, b2)

\* C22: every trial leaves the seeded teams as they are and its arrangement is
\* the seeded teams with at most one cross-team swap, whatever the best and the
\* previous arrangement are; the teams returned are the seeded teams or one
\* swap of a team1 player with a team2 player away from them, with the seeded
\* sizes.
C22_TrialsStartFromSeed ==
    /\ [][(pc = "trial" /\ pc' = "trial") =>
             /\ team1' = team1 /\ team2' = team2
             /\ SeedOrOneSwap(team1Temp', team2Temp')]_vars
    /\ [](pc = "trial" => SeedOrOneSwap(bestTeam1, bestTeam2))
    /\ [][(pc = "trial" /\ pc' = "idle") =>
             /\ SeedOrOneSwap(teams'[1].team1, teams'[1].team2)
             /\ Len(teams'[1].team1) = Len(team1)
             /\ Len(teams'[1].team2) = Len(team2)]_vars

\* a trial found a better arrangement and a later trial tried a different swap
C22_Witness ==
    /\ pc = "trial" /\ attempt >= 2
    /\ <<bestTeam1, bestTeam2>> # <<team1, team2>>
    /\ <<team1Temp, team2Temp>> # <<team1, team2>>
    /\ <<team1Temp, team2Temp>> # <<bestTeam1, bestTeam2>>

\* ---------------------------------------------------------------------
\* Category counts of the randomizer page
\* ---------------------------------------------------------------------
CategoryCount(team, c) == Cardinality({i \in DOMAIN team : players[team[i]].category = c})

\* C23: in the teams the category-stratified balancer returns, the numbers of
\* players of each category on team1 and on team2 differ by at most 1.
C23_CategoryCountsBalanced ==
    (page = "category" /\ teams # NoTeams) =>
        \A c \in Categories :
            Abs(CategoryCount(teams[1].team1, c) - CategoryCount(teams[1].team2, c)) <= 1

\* C24: on the randomizer page every trial arrangement and the teams returned
\* have, on each team, as many Expert, Intermediate and Beginner players as
\* the teams right after size reconciliation.
C24_RefinementKeepsCategories ==
    /\ [][(page = "category" /\ pc = "trial" /\ pc' = "trial") =>
             \A c \in Categories :
                 /\ CategoryCount(team1Temp', c) = CategoryCount(team1, c)
                 /\ CategoryCount(team2Temp', c) = CategoryCount(team2, c)]_vars
    /\ [][(page = "category" /\ pc = "trial" /\ pc' = "idle") =>
             \A c \in Categories :
                 /\ CategoryCount(teams'[1].team1, c) = CategoryCount(team1, c)
                 /\ CategoryCount(teams'[1].team2, c) = CategoryCount(team2, c)]_vars

\* teams of mixed categories were returned after a swap that improved the seed
C24_Witness ==
    /\ page = "category" /\ teams # NoTeams
    /\ Len(players) = 4
    /\ CategoryCount(teams[1].team1, "Expert") = 1
    /\ CategoryCount(teams[1].team1, "Beginner") = 1
    /\ CategoryCount(teams[1].team2, "Expert") = 1
    /\ CategoryCount(teams[1].team2, "Beginner") = 1
    /\ calculateTeamRoleScore(teams[1].team1) = 20
    /\ calculateTeamRoleScore(teams[1].team2) = 20

\* ---------------------------------------------------------------------
\* Rating changes of a match
\* ---------------------------------------------------------------------
OtherTeam(winningTeam) == IF winningTeam = "team1" THEN "team2" ELSE "team1"

\* C25: the ratings calculateMatchMmrChanges gives the team1 players are those
\* of calculateNewMmr against the average pre-match rating of team2, and those
\* of the team2 players against the average pre-match rating of team1; giving
\* the teams in the other order gives every player the same new rating.
C25_AgainstPreMatchAverages ==
    \A c \in DOMAIN calls :
        calls[c].pc = "transaction" =>
            LET teamComposition == teamCompositions[calls[c].teamCompositionId]
                before1 == teamComposition.team1
                before2 == teamComposition.team2
                team1Won == calls[c].winningTeam = "team1"
                mirrored == calculateMatchMmrChanges(before2, before1,
                                                     OtherTeam(calls[c].winningTeam))
            IN /\ \A i \in DOMAIN before1 :
                     calls[c].updatedTeam1[i].stats[1].mmr =
                        calculateNewMmr(PlayerMmr(before1[i]),
                                        calculateTeamAverageMmrOf(before2), team1Won)
               /\ \A i \in DOMAIN before2 :
                     calls[c].updatedTeam2[i].stats[1].mmr =
                        calculateNewMmr(PlayerMmr(before2[i]),
                                        calculateTeamAverageMmrOf(before1), ~team1Won)
               /\ mirrored.updatedTeam1 = calls[c].updatedTeam2
               /\ mirrored.updatedTeam2 = calls[c].updatedTeam1

\* two players of different ratings beat a third: the average of team1 moves
C25_Witness ==
    \E c \in DOMAIN calls :
        /\ calls[c].pc = "transaction"
        /\ calls[c].winningTeam = "team1"
        /\ Len(calls[c].updatedTeam1) = 2
        /\ Len(calls[c].updatedTeam2) = 1
        /\ calculateTeamAverageMmrOf(calls[c].updatedTeam1)
              # calculateTeamAverageMmrOf(teamCompositions[calls[c].teamCompositionId].team1)

\* ---------------------------------------------------------------------
\* One match per team composition
\* ---------------------------------------------------------------------
\* the team compositions a player takes part in
CompositionsOf(id) ==
    {k \in DOMAIN teamCompositions :
        \E p \in Range(teamCompositions[k].team1) \cup Range(teamCompositions[k].team2) :
            p.id = id}

\* C26: the matchResults collection holds at most one record per team
\* composition and a player's matchesPlayed has grown by at most one per team
\* composition the player is part of.
C26_OneMatchPerComposition ==
    /\ \A k \in DOMAIN teamCompositions :
          Cardinality({r \in DOMAIN matchResults :
                          matchResults[r].teamCompositionId = k}) <= 1
    /\ \A id \in DOMAIN playerDocs :
          (playerDocs[id] # <<>> /\ playerDocs[id][1].stats # <<>>) =>
              playerDocs[id][1].stats[1].matchesPlayed <= Cardinality(CompositionsOf(id))

\* ---------------------------------------------------------------------
\* The limit of ten selected players
\* ---------------------------------------------------------------------
\* C27: selectedCount never exceeds 10, no more than 10 players of the page's
\* list have isSelected = true, and selectedCount is the number of players
\* whose isSelected is true.
C27_AtMostTenSelected ==
    LET selectedInList == {id \in DOMAIN players : players[id].isSelected} IN
    /\ selectedCount <= 10
    /\ Cardinality(selectedInList) <= 10
    /\ selectedCount = Cardinality(selectedInList)

\* ---------------------------------------------------------------------
\* Editing the tier of a player
\* ---------------------------------------------------------------------
\* C28: while the player has played no match, the effective rating after an
\* edit is the default rating of the tier chosen in the edit.
C28_TierEditTakesEffect ==
    (playerA # NoPlayer /\ editedTier # Null /\ MatchesPlayed(playerA) = 0) =>
        PlayerMmr(playerA) = DEFAULT_MMR_VALUES[editedTier]

\* ---------------------------------------------------------------------
\* The teams of the custom-team page
\* ---------------------------------------------------------------------
NoDuplicate(team) == \A i, j \in DOMAIN team : i # j => team[i] # team[j]

\* C29: on the custom-team page no player is on both teams or twice on a
\* team, a team has at most 5 players, and an operation that changes one team
\* leaves the other as it is; a removal takes the player off and keeps the
\* others in their order.
C29_CustomTeams ==
    /\ [](page = "custom" =>
            /\ Range(team1) \cap Range(team2) = {}
            /\ NoDuplicate(team1) /\ NoDuplicate(team2)
            /\ Len(team1) <= 5 /\ Len(team2) <= 5)
    /\ [][page = "custom" =>
            /\ team1' # team1 => team2' = team2
            /\ team2' # team2 => team1' = team1
            /\ Len(team1') < Len(team1) =>
                  \E i \in DOMAIN team1 :
                      team1' = SubSeq(team1, 1, i - 1) \o SubSeq(team1, i + 1, Len(team1))
            /\ Len(team2') < Len(team2) =>
                  \E i \in DOMAIN team2 :
                      team2' = SubSeq(team2, 1, i - 1) \o SubSeq(team2, i + 1, Len(team2))]_vars

\* team1 is full, the remaining player is on team2
C29_Witness ==
    /\ page = "custom"
    /\ Len(team1) = 5
    /\ team2 = <<1>>
    /\ team1[1] = 2

\* ---------------------------------------------------------------------
\* recordMatchResult for a team composition that does not exist
\* ---------------------------------------------------------------------
\* C30: a call of recordMatchResult goes on to its transaction only for a team
\* composition that exists; while no team composition exists every call whose
\* read succeeds throws 'Team composition not found'; and a call that throws
\* before its transaction has written nothing: player documents, team
\* compositions and match results are as before and nothing is committed.
C30_CompositionNotFound ==
    [][\A c \in DOMAIN calls :
          (calls[c].pc = "new" /\ calls'[c].pc # "new") =>
              /\ calls'[c].pc \in {"transaction", "thrown"}
              /\ calls'[c].pc = "transaction" =>
                    calls'[c].teamCompositionId \in DOMAIN teamCompositions
              /\ teamCompositions = <<>> =>
                    /\ calls'[c].pc = "thrown"
                    /\ calls'[c].error \in {"Team composition not found", StorageFailure}
              /\ calls'[c].pc = "thrown" =>
                    /\ ~calls'[c].committed
                    /\ playerDocs' = playerDocs
                    /\ teamCompositions' = teamCompositions
                    /\ matchResults' = matchResults]_vars

\* a call has thrown 'Team composition not found' while another call, for the
\* team composition that exists, has committed its transaction
C30_Witness ==
    \E c, other \in DOMAIN calls :
        /\ calls[c].pc = "thrown"
        /\ calls[c].error = "Team composition not found"
        /\ ~calls[c].committed
        /\ calls[other].committed
        /\ Len(teamCompositions) = 1
        /\ teamCompositions[1].matchResult # <<>>

====
